---- MODULE Spec2Model ----
(***************************************************************************)
(* State-machine model of the card game server in src/backend: the game    *)
(* object of one room (gameLogic.js createGameState), the socket handlers  *)
(* of index.js, the two kinds of timers they schedule, and the per-viewer  *)
(* snapshot sanitizeGameState produces.                                    *)
(*                                                                         *)
(* Cards are the numbers 1..54 in createDeck order.  The three boolean     *)
(* fields of a card object (isFaceUp, knownToPlayer, knownToOpponent) are   *)
(* kept as three sets of cards inside the game record, so that they travel *)
(* with the card from container to container as object fields do.          *)
(***************************************************************************)
EXTENDS Integers, Sequences, FiniteSets, TLC

\* ------------------------------------------------------------------ bounds

\* accepted game requests after the deal, per behaviour
MaxMoves == 7
\* deals per behaviour (the first one and the replays)
MaxDeals == 2

\* ------------------------------------------------------------------ values

\* JavaScript null / undefined in a card position (cards are 1..54)
Null == 0
\* an absent socket id (null / undefined)
NoId == "null"
\* the optional offensiveGiveIndex left out of the request
NoIdx == 0 - 1

\* Connections, named in the order in which they first join the room.  The
\* third one finds the room full and joins without a seat.
Sockets == <<"s1", "s2", "s3">>
SocketIds == {Sockets[i] : i \in 1..Len(Sockets)}
\* the two connections that take the seats
Seated == {"s1", "s2"}

\* Hand positions that requests name (0-based, as in the messages): a top
\* slot, a bottom slot and the first position past the fixed layout.  A
\* request names a position of the hand it addresses, see ValidIdx.
HandIdx == {0, 2, 4}

SUITS == <<"hearts", "diamonds", "clubs", "spades">>
VALUES == <<"A", "2", "3", "4", "5", "6", "7", "8", "9", "10", "J", "Q", "K">>
AbilityTypes == {"K", "J", "8", "6"}

\* createDeck: 13 values for each of the 4 suits, then the two jokers
createDeck == [n \in 1..54 |-> n]

valueOf(c) == IF c > 52 THEN "Joker" ELSE VALUES[((c - 1) % 13) + 1]
suitOf(c) == IF c > 52 THEN "none" ELSE SUITS[((c - 1) \div 13) + 1]

\* ------------------------------------------------------------------ shuffle

RECURSIVE SeqToSet(_)
SeqToSet(s) == IF s = <<>> THEN {} ELSE {Head(s)} \cup SeqToSet(Tail(s))

RECURSIVE Reverse(_)
Reverse(s) == IF s = <<>> THEN <<>> ELSE Append(Reverse(Tail(s)), Head(s))

RECURSIVE Without(_, _)
Without(s, S) ==
  IF s = <<>> THEN <<>>
  ELSE IF Head(s) \in S THEN Without(Tail(s), S)
       ELSE <<Head(s)>> \o Without(Tail(s), S)

\* The permutation of deck whose pops (from the end) come in the order
\* top, followed by the other cards.
Arrange(deck, top) == Without(deck, SeqToSet(top)) \o Reverse(top)

\* Pop orders of the shuffles the model draws from: the eight dealt cards
\* (four to the first seat, four to the second), then the draws.
\*   Kh 2h 6h 3h | 7d 4h 6d 5h | 7c Jc 8c 9c
ShuffleTops == { <<13, 2, 6, 3, 20, 4, 19, 5, 33, 37, 34, 35>> }

\* shuffle: Math.random picks the permutation; the model picks among these
shuffle(deck) == {Arrange(deck, t) : t \in ShuffleTops}

\* ------------------------------------------------------------------ state

VARIABLES
  game,          \* activeGames[roomId]: the game object and its cards' flags
  joined,        \* sockets that are in the room (socket.rooms)
  phase1Timers,  \* pending 10 s timers of player_ready / play_again
  peekTimers,    \* pending 5 s timers of the 8 and 6 abilities, oldest first:
                 \* the card and the socket their closure holds, the flag they clear
  emitted,       \* <<kind, recipient>> of the messages sent by the last step
  crashed,       \* a handler threw
  moves,         \* accepted game requests so far
  deals,         \* deals so far
  turnDrawn      \* history: the player holding the turn has drawn in this turn

vars == <<game, joined, phase1Timers, peekTimers, emitted, crashed, moves, deals, turnDrawn>>

NoAbility == [type |-> "none", player |-> NoId, jackPhase |-> "none", jackMyIndex |-> NoIdx]
NoStack == [active |-> FALSE, caller |-> NoId, targetValue |-> "null"]

\* createGameState (endTriggeredBy is not set there and reads as undefined)
createGameState ==
  [ status |-> "lobby",
    players |-> [s \in {} |-> 0],
    playerOrder |-> <<>>,
    turnIndex |-> 0,
    deck |-> <<>>,
    discardPile |-> <<>>,
    drawnCard |-> Null,
    activeAbility |-> NoAbility,
    stackWindow |-> NoStack,
    endTriggeredBy |-> NoId,
    faceUp |-> {},
    knownToPlayer |-> {},
    knownToOpponent |-> {} ]

Init ==
  /\ game = createGameState
  /\ joined = {}
  /\ phase1Timers = 0
  /\ peekTimers = <<>>
  /\ emitted = {}
  /\ crashed = FALSE
  /\ moves = 0
  /\ deals = 0
  /\ turnDrawn = FALSE

\* ------------------------------------------------------------------ helpers

\* hand[i] for a 0-based i; a position outside the array reads as undefined
HandGet(h, i) == IF (i + 1) \in DOMAIN h THEN h[i + 1] ELSE Null
\* hand[i] = c for a position of the array
HandSet(h, i, c) == [h EXCEPT ![i + 1] = c]

\* the positions of hand h that a request can name
ValidIdx(h) == {i \in HandIdx : (i + 1) \in DOMAIN h}

CardsOf(h) == {h[i] : i \in DOMAIN h} \ {Null}

\* array.pop(): the last element, undefined when the array is empty
PopCard(d) == IF d = <<>> THEN Null ELSE d[Len(d)]
PopRest(d) == IF d = <<>> THEN d ELSE SubSeq(d, 1, Len(d) - 1)

\* A handler works on the game object and collects what it sends: w is the
\* game record extended with the field emitted, a set of <<kind, recipient>>,
\* and with the history of the turn.
Work(g) == g @@ [emitted |-> {}, turnDrawn |-> turnDrawn]
GameOf(w) == [f \in DOMAIN game |-> w[f]]

Emit(w, kind, to) == [w EXCEPT !.emitted = @ \cup {<<kind, to>>}]

notifyRoom(w) == Emit(w, "game_notification", "room")
notifyPlayer(w, s) == Emit(w, "game_notification", s)

getOpponentId(g, s) ==
  LET others == {i \in 1..Len(g.playerOrder) : g.playerOrder[i] # s}
  IN IF others = {} THEN NoId
     ELSE g.playerOrder[CHOOSE i \in others : \A j \in others : i <= j]

\* the socket whose turn it is: playerOrder[turnIndex], undefined in an
\* empty room
ActiveId(g) ==
  IF (g.turnIndex + 1) \in DOMAIN g.playerOrder THEN g.playerOrder[g.turnIndex + 1] ELSE NoId

\* sendGameState with sanitizeGameState working on the game itself instead of
\* a deep copy: the cards it blanks for a viewer lose rank, suit and id in the
\* game (written as the negated card)
sendGameState_NoCopy(w) ==
  LET isPlaying == w.status \in {"playing", "phase1"}
      seenByAll(pId, i, c) ==
        /\ (w.status = "phase1" /\ (i = 2 \/ i = 3)) \/ c \in w.knownToPlayer
        /\ c \in w.knownToOpponent
      blank(pId, i, c) ==
        IF isPlaying /\ c # Null /\ c > 0 /\ c \notin w.faceUp /\ ~seenByAll(pId, i, c)
        THEN 0 - c ELSE c
  IN [w EXCEPT
        !.emitted = @ \cup {<<"game_state_update", s>> : s \in DOMAIN w.players},
        !.players = [pId \in DOMAIN w.players |->
                       [w.players[pId] EXCEPT
                          !.hand = [k \in DOMAIN w.players[pId].hand |->
                                      blank(pId, k - 1, w.players[pId].hand[k])]]],
        !.drawnCard = IF isPlaying /\ @ # Null /\ @ > 0 THEN 0 - @ ELSE @]

\* sendGameState: one sanitized snapshot to every seated player
sendGameState(w) ==
  [w EXCEPT !.emitted = @ \cup {<<"game_state_update", s>> : s \in DOMAIN w.players}]

ParseInt(v) ==
  CASE v = "2" -> 2 [] v = "3" -> 3 [] v = "4" -> 4 [] v = "5" -> 5 [] v = "6" -> 6
    [] v = "7" -> 7 [] v = "8" -> 8 [] v = "9" -> 9 [] v = "10" -> 10

\* getCardValue without the test of the red queens
getCardValue_NoRedQueenTest(c) ==
  IF valueOf(c) = "Joker" THEN 0 - 1
  ELSE IF valueOf(c) = "A" THEN 1
  ELSE IF valueOf(c) = "J" \/ valueOf(c) = "Q" \/ valueOf(c) = "K" THEN 10
  ELSE ParseInt(valueOf(c))

getCardValue(c) ==
  IF valueOf(c) = "Joker" THEN 0 - 1
  ELSE IF valueOf(c) = "Q" /\ (suitOf(c) = "hearts" \/ suitOf(c) = "diamonds") THEN 0
  ELSE IF valueOf(c) = "A" THEN 1
  ELSE IF valueOf(c) = "J" \/ valueOf(c) = "Q" \/ valueOf(c) = "K" THEN 10
  ELSE ParseInt(valueOf(c))

RECURSIVE calculateScore(_)
calculateScore(h) ==
  IF h = <<>> THEN 0
  ELSE (IF Head(h) = Null THEN 0 ELSE getCardValue(Head(h))) + calculateScore(Tail(h))

\* dealInitial without the mark on hand[3]
dealInitial_NoMarkOnSlot3(w, d) ==
  LET n == Len(d)
      handOf(k) == <<d[n - 4 * k], d[n - 4 * k - 1], d[n - 4 * k - 2], d[n - 4 * k - 3]>>
      seat(s) == CHOOSE k \in 0..(Len(w.playerOrder) - 1) : w.playerOrder[k + 1] = s
  IN [w EXCEPT
        !.players = [s \in DOMAIN w.players |-> [w.players[s] EXCEPT !.hand = handOf(seat(s))]],
        !.deck = SubSeq(d, 1, n - 4 * Len(w.playerOrder)),
        !.faceUp = {},
        !.knownToPlayer = UNION {{handOf(seat(s))[3]} : s \in DOMAIN w.players},
        !.knownToOpponent = {}]

\* dealInitial with the shuffled deck d: four pops per seat in seat order,
\* knownToPlayer on hand[2] and hand[3].  The cards are fresh objects, so
\* every flag starts false.
dealInitial(w, d) ==
  LET n == Len(d)
      handOf(k) == <<d[n - 4 * k], d[n - 4 * k - 1], d[n - 4 * k - 2], d[n - 4 * k - 3]>>
      seat(s) == CHOOSE k \in 0..(Len(w.playerOrder) - 1) : w.playerOrder[k + 1] = s
  IN [w EXCEPT
        !.players = [s \in DOMAIN w.players |-> [w.players[s] EXCEPT !.hand = handOf(seat(s))]],
        !.deck = SubSeq(d, 1, n - 4 * Len(w.playerOrder)),
        !.faceUp = {},
        !.knownToPlayer = UNION {{handOf(seat(s))[3], handOf(seat(s))[4]} : s \in DOMAIN w.players},
        !.knownToOpponent = {}]

\* promptEndGame without the loop that turns the hand cards face-up
promptEndGame_NoReveal(w) ==
  sendGameState(
    [w EXCEPT
       !.status = "finished",
       !.players = [s \in DOMAIN w.players |->
                      [w.players[s] EXCEPT !.score = calculateScore(w.players[s].hand)]]])

\* promptEndGame: finished, every hand card face-up, scores computed
promptEndGame(w) ==
  sendGameState(
    [w EXCEPT
       !.status = "finished",
       !.faceUp = @ \cup UNION {CardsOf(w.players[s].hand) : s \in DOMAIN w.players},
       !.players = [s \in DOMAIN w.players |->
                      [w.players[s] EXCEPT !.score = calculateScore(w.players[s].hand)]]])

advanceTurn(w) ==
  LET w1 == [w EXCEPT !.turnIndex = (w.turnIndex + 1) % Len(w.playerOrder),
                      !.drawnCard = Null,
                      !.turnDrawn = FALSE]
  IN IF w1.endTriggeredBy = ActiveId(w1)
     THEN promptEndGame(w1)
     ELSE sendGameState(notifyRoom(w1))

\* checkEndGameAndAdvance without the test of isFinalTurn
checkEndGameAndAdvance_NoFinalTurnTest(w) ==
  LET p == ActiveId(w)
      allFaceUp == \A i \in DOMAIN w.players[p].hand :
                      w.players[p].hand[i] = Null \/ w.players[p].hand[i] \in w.faceUp
  IN IF allFaceUp
     THEN promptEndGame([w EXCEPT !.players[p].isFinalTurn = TRUE])
     ELSE advanceTurn(w)

checkEndGameAndAdvance(w) ==
  LET p == ActiveId(w)
      allFaceUp == \A i \in DOMAIN w.players[p].hand :
                      w.players[p].hand[i] = Null \/ w.players[p].hand[i] \in w.faceUp
  IN IF allFaceUp /\ ~w.players[p].isFinalTurn
     THEN promptEndGame([w EXCEPT !.players[p].isFinalTurn = TRUE])
     ELSE advanceTurn(w)

\* handleDiscard without the test of the ability ranks
handleDiscard_NoAbilityTest(w, card, s) ==
  IF card = Null THEN checkEndGameAndAdvance(w)
  ELSE checkEndGameAndAdvance([w EXCEPT !.faceUp = @ \cup {card},
                                        !.discardPile = Append(@, card)])

\* handleDiscard without card.isFaceUp = true
handleDiscard_NoFaceUp(w, card, s) ==
  IF card = Null THEN checkEndGameAndAdvance(w)
  ELSE LET w1 == [w EXCEPT !.discardPile = Append(@, card)]
       IN IF valueOf(card) \in AbilityTypes
          THEN sendGameState(notifyRoom(
                 [w1 EXCEPT !.activeAbility =
                    [type |-> valueOf(card), player |-> s,
                     jackPhase |-> "none", jackMyIndex |-> NoIdx]]))
          ELSE checkEndGameAndAdvance(w1)

handleDiscard(w, card, s) ==
  IF card = Null THEN checkEndGameAndAdvance(w)
  ELSE LET w1 == [w EXCEPT !.faceUp = @ \cup {card},
                           !.discardPile = Append(@, card)]
       IN IF valueOf(card) \in AbilityTypes
          THEN sendGameState(notifyRoom(
                 [w1 EXCEPT !.activeAbility =
                    [type |-> valueOf(card), player |-> s,
                     jackPhase |-> "none", jackMyIndex |-> NoIdx]]))
          ELSE checkEndGameAndAdvance(w1)

\* ------------------------------------------------------------------ steps

\* The handler returns at a guard: nothing is changed and nothing is sent,
\* so the step leaves every variable as it is.
Ignore == UNCHANGED vars

\* The handler ran to its end on w.
Done(w) ==
  /\ game' = GameOf(w)
  /\ emitted' = w.emitted
  /\ turnDrawn' = w.turnDrawn
  /\ UNCHANGED <<joined, crashed>>

\* The handler threw after having brought the game to w.
Throw(w) ==
  /\ game' = GameOf(w)
  /\ emitted' = w.emitted
  /\ crashed' = TRUE
  /\ UNCHANGED <<joined, phase1Timers, peekTimers, moves, deals, turnDrawn>>

\* An accepted game request counts as a move once the cards are dealt.
Move(w) ==
  /\ moves < MaxMoves
  /\ moves' = IF game.status = "lobby" THEN moves ELSE moves + 1
  /\ Done(w)
  /\ UNCHANGED <<phase1Timers, peekTimers, deals>>

\* join_game without the test that a seat is free
JoinGame_NoFullTest(s) ==
  /\ ~crashed
  /\ \/ s \in joined
     \/ \E i \in 1..Len(Sockets) : Sockets[i] = s /\ Cardinality(joined) = i - 1
  /\ joined' = joined \cup {s}
  /\ LET w == Work(game)
         w1 == IF s \notin DOMAIN w.players
               THEN [w EXCEPT
                       !.players = @ @@ (s :> [number |-> Len(w.playerOrder) + 1,
                                               hand |-> <<Null, Null, Null, Null>>,
                                               score |-> 0, ready |-> FALSE,
                                               isFinalTurn |-> FALSE]),
                       !.playerOrder = Append(@, s)]
               ELSE w
         w2 == sendGameState(w1)
     IN /\ game' = GameOf(w2)
        /\ emitted' = w2.emitted
  /\ UNCHANGED <<phase1Timers, peekTimers, crashed, moves, deals, turnDrawn>>

\* join_game: connections are named in the order of their first join
JoinGame(s) ==
  /\ ~crashed
  /\ \/ s \in joined
     \/ \E i \in 1..Len(Sockets) : Sockets[i] = s /\ Cardinality(joined) = i - 1
  /\ joined' = joined \cup {s}
  /\ LET w == Work(game)
         w1 == IF Len(w.playerOrder) < 2 /\ s \notin DOMAIN w.players
               THEN [w EXCEPT
                       !.players = @ @@ (s :> [number |-> Len(w.playerOrder) + 1,
                                               hand |-> <<Null, Null, Null, Null>>,
                                               score |-> 0, ready |-> FALSE,
                                               isFinalTurn |-> FALSE]),
                       !.playerOrder = Append(@, s)]
               ELSE w
         w2 == sendGameState(w1)
     IN /\ game' = GameOf(w2)
        /\ emitted' = w2.emitted
  /\ UNCHANGED <<phase1Timers, peekTimers, crashed, moves, deals, turnDrawn>>

\* player_ready without the setTimeout after the deal
PlayerReady_NoTimer(s) ==
  /\ ~crashed
  /\ IF s \notin joined THEN Ignore
     ELSE IF s \notin DOMAIN game.players THEN Throw(Work(game))
     ELSE LET w == [Work(game) EXCEPT !.players[s].ready = TRUE]
              allReady == /\ Len(w.playerOrder) = 2
                          /\ \A i \in 1..2 : w.players[w.playerOrder[i]].ready
          IN IF allReady /\ w.status = "lobby"
             THEN /\ deals < MaxDeals
                  /\ \E d \in shuffle(createDeck) :
                       Done(sendGameState([dealInitial(w, d) EXCEPT !.status = "phase1"]))
                  /\ phase1Timers' = phase1Timers
                  /\ deals' = deals + 1
                  /\ UNCHANGED <<peekTimers, moves>>
             ELSE /\ Done(sendGameState(w))
                  /\ UNCHANGED <<phase1Timers, peekTimers, moves, deals>>

\* player_ready
PlayerReady(s) ==
  /\ ~crashed
  /\ IF s \notin joined THEN Ignore
     ELSE IF s \notin DOMAIN game.players THEN Throw(Work(game))
     ELSE LET w == [Work(game) EXCEPT !.players[s].ready = TRUE]
              allReady == /\ Len(w.playerOrder) = 2
                          /\ \A i \in 1..2 : w.players[w.playerOrder[i]].ready
          IN IF allReady /\ w.status = "lobby"
             THEN /\ deals < MaxDeals
                  /\ \E d \in shuffle(createDeck) :
                       Done(sendGameState([dealInitial(w, d) EXCEPT !.status = "phase1"]))
                  /\ phase1Timers' = phase1Timers + 1
                  /\ deals' = deals + 1
                  /\ UNCHANGED <<peekTimers, moves>>
             ELSE /\ Done(sendGameState(w))
                  /\ UNCHANGED <<phase1Timers, peekTimers, moves, deals>>

\* the 10 s timer of player_ready and play_again
Phase1Timer ==
  /\ ~crashed
  /\ phase1Timers > 0
  /\ phase1Timers' = phase1Timers - 1
  /\ IF game.status = "phase1"
     THEN LET bottom == UNION {{HandGet(game.players[s].hand, 2), HandGet(game.players[s].hand, 3)}
                                 : s \in DOMAIN game.players}
              w == [Work(game) EXCEPT !.status = "playing",
                                      !.knownToPlayer = @ \ bottom]
          IN Done(notifyRoom(sendGameState(w)))
     ELSE /\ emitted' = {}
          /\ UNCHANGED <<game, joined, crashed, turnDrawn>>
  /\ UNCHANGED <<peekTimers, moves, deals>>

\* draw_deck without the test of activeAbility
DrawDeck_NoAbilityTest(s) ==
  /\ ~crashed
  /\ IF s \notin joined \/ ActiveId(game) # s THEN Ignore
     ELSE IF game.drawnCard # Null THEN Ignore
     ELSE Move(sendGameState([Work(game) EXCEPT !.drawnCard = PopCard(game.deck),
                                                 !.deck = PopRest(game.deck),
                                                 !.turnDrawn = TRUE]))

\* draw_deck
DrawDeck(s) ==
  /\ ~crashed
  /\ IF s \notin joined \/ ActiveId(game) # s THEN Ignore
     ELSE IF game.drawnCard # Null \/ game.activeAbility.type # "none" THEN Ignore
     ELSE Move(sendGameState([Work(game) EXCEPT !.drawnCard = PopCard(game.deck),
                                                 !.deck = PopRest(game.deck),
                                                 !.turnDrawn = TRUE]))

\* the positions of the hand of s that a request by or about s names
IdxFor(g, s) == IF s \in DOMAIN g.players THEN ValidIdx(g.players[s].hand) ELSE {0}

\* The requests below take the sender; what else a message carries is drawn
\* once the handler is past its guards.

\* draw_discard without discardCard.isFaceUp = false
DrawDiscard_NoFaceDown(s) ==
  /\ ~crashed
  /\ IF s \notin joined \/ ActiveId(game) # s THEN Ignore
     ELSE IF game.drawnCard # Null \/ game.activeAbility.type # "none" \/ game.discardPile = <<>>
     THEN Ignore
     ELSE \E handIndex \in IdxFor(game, s) :
          LET discardCard == PopCard(game.discardPile)
              oldCard == HandGet(game.players[s].hand, handIndex)
              w == [Emit(Work(game), "card_animation", "room") EXCEPT
                      !.discardPile = PopRest(@),
                      !.turnDrawn = TRUE,
                      !.knownToPlayer = @ \ {discardCard},
                      !.players[s].hand = HandSet(@, handIndex, discardCard)]
          IN Move(handleDiscard(w, oldCard, s))

\* draw_discard{handIndex}
DrawDiscard(s) ==
  /\ ~crashed
  /\ IF s \notin joined \/ ActiveId(game) # s THEN Ignore
     ELSE IF game.drawnCard # Null \/ game.activeAbility.type # "none" \/ game.discardPile = <<>>
     THEN Ignore
     ELSE \E handIndex \in IdxFor(game, s) :
          LET discardCard == PopCard(game.discardPile)
              oldCard == HandGet(game.players[s].hand, handIndex)
              w == [Emit(Work(game), "card_animation", "room") EXCEPT
                      !.discardPile = PopRest(@),
                      !.turnDrawn = TRUE,
                      !.faceUp = @ \ {discardCard},
                      !.knownToPlayer = @ \ {discardCard},
                      !.players[s].hand = HandSet(@, handIndex, discardCard)]
          IN Move(handleDiscard(w, oldCard, s))

\* swap_drawn_card{handIndex}
SwapDrawnCard(s) ==
  /\ ~crashed
  /\ IF s \notin joined \/ ActiveId(game) # s THEN Ignore
     ELSE IF game.drawnCard = Null THEN Ignore
     ELSE \E handIndex \in IdxFor(game, s) :
          LET oldCard == HandGet(game.players[s].hand, handIndex)
              w == [Emit(Work(game), "card_animation", "room") EXCEPT
                      !.faceUp = @ \ {game.drawnCard},
                      !.knownToPlayer = @ \ {game.drawnCard},
                      !.players[s].hand = HandSet(@, handIndex, game.drawnCard),
                      !.drawnCard = Null]
          IN Move(handleDiscard(w, oldCard, s))

\* discard_drawn_card
DiscardDrawnCard(s) ==
  /\ ~crashed
  /\ IF s \notin joined \/ ActiveId(game) # s THEN Ignore
     ELSE IF game.drawnCard = Null THEN Ignore
     ELSE LET w == Emit([Work(game) EXCEPT !.drawnCard = Null], "card_animation", "room")
          IN Move(handleDiscard(w, game.drawnCard, s))

\* call_stack without the test of stackWindow.active
CallStack_NoActiveTest(s) ==
  /\ ~crashed
  /\ IF s \notin joined \/ game.discardPile = <<>> THEN Ignore
     ELSE Move(sendGameState(notifyRoom(
            [Work(game) EXCEPT !.stackWindow =
               [active |-> TRUE, caller |-> s,
                targetValue |-> valueOf(game.discardPile[Len(game.discardPile)])]])))

\* call_stack
CallStack(s) ==
  /\ ~crashed
  /\ IF s \notin joined \/ game.discardPile = <<>> THEN Ignore
     ELSE IF game.stackWindow.active THEN Ignore
     ELSE Move(sendGameState(notifyRoom(
            [Work(game) EXCEPT !.stackWindow =
               [active |-> TRUE, caller |-> s,
                targetValue |-> valueOf(game.discardPile[Len(game.discardPile)])]])))

\* play_again without player.isFinalTurn = false
PlayAgain_NoFinalTurnReset(s) ==
  /\ ~crashed
  /\ IF s \notin joined \/ game.status # "finished" THEN Ignore
     ELSE /\ deals < MaxDeals
          /\ LET w == [Work(game) EXCEPT
                         !.status = "phase1",
                         !.turnIndex = 0,
                         !.deck = <<>>,
                         !.discardPile = <<>>,
                         !.drawnCard = Null,
                         !.activeAbility = NoAbility,
                         !.stackWindow = NoStack,
                         !.endTriggeredBy = NoId,
                         !.turnDrawn = FALSE,
                         !.players = [p \in DOMAIN game.players |->
                                        [game.players[p] EXCEPT
                                           !.hand = <<Null, Null, Null, Null>>,
                                           !.score = 0]]]
             IN \E d \in shuffle(createDeck) : Done(sendGameState(dealInitial(w, d)))
          /\ phase1Timers' = phase1Timers + 1
          /\ peekTimers' = [i \in DOMAIN peekTimers |-> [peekTimers[i] EXCEPT !.card = Null]]
          /\ deals' = deals + 1
          /\ UNCHANGED moves

\* play_again without the test of the status
PlayAgain_NoStatusTest(s) ==
  /\ ~crashed
  /\ IF s \notin joined THEN Ignore
     ELSE /\ deals < MaxDeals
          /\ LET w == [Work(game) EXCEPT
                         !.status = "phase1",
                         !.turnIndex = 0,
                         !.deck = <<>>,
                         !.discardPile = <<>>,
                         !.drawnCard = Null,
                         !.activeAbility = NoAbility,
                         !.stackWindow = NoStack,
                         !.endTriggeredBy = NoId,
                         !.turnDrawn = FALSE,
                         !.players = [p \in DOMAIN game.players |->
                                        [game.players[p] EXCEPT
                                           !.hand = <<Null, Null, Null, Null>>,
                                           !.score = 0,
                                           !.isFinalTurn = FALSE]]]
             IN \E d \in shuffle(createDeck) : Done(sendGameState(dealInitial(w, d)))
          /\ phase1Timers' = phase1Timers + 1
          /\ peekTimers' = [i \in DOMAIN peekTimers |-> [peekTimers[i] EXCEPT !.card = Null]]
          /\ deals' = deals + 1
          /\ UNCHANGED moves

\* play_again: the same game object is reset and dealt again.  The cards of
\* the finished game are no longer referenced by the game, so a pending peek
\* timer keeps a card that is in no container (Null here).
PlayAgain(s) ==
  /\ ~crashed
  /\ IF s \notin joined \/ game.status # "finished" THEN Ignore
     ELSE /\ deals < MaxDeals
          /\ LET w == [Work(game) EXCEPT
                         !.status = "phase1",
                         !.turnIndex = 0,
                         !.deck = <<>>,
                         !.discardPile = <<>>,
                         !.drawnCard = Null,
                         !.activeAbility = NoAbility,
                         !.stackWindow = NoStack,
                         !.endTriggeredBy = NoId,
                         !.turnDrawn = FALSE,
                         !.players = [p \in DOMAIN game.players |->
                                        [game.players[p] EXCEPT
                                           !.hand = <<Null, Null, Null, Null>>,
                                           !.score = 0,
                                           !.isFinalTurn = FALSE]]]
             IN \E d \in shuffle(createDeck) : Done(sendGameState(dealInitial(w, d)))
          /\ phase1Timers' = phase1Timers + 1
          /\ peekTimers' = [i \in DOMAIN peekTimers |-> [peekTimers[i] EXCEPT !.card = Null]]
          /\ deals' = deals + 1
          /\ UNCHANGED moves

\* call_it
CallIt(s) ==
  /\ ~crashed
  /\ IF s \notin joined \/ ActiveId(game) # s THEN Ignore
     ELSE IF \/ game.drawnCard # Null
             \/ game.activeAbility.type # "none"
             \/ game.stackWindow.active
             \/ game.status # "playing"
     THEN Ignore
     ELSE Move(advanceTurn(notifyRoom([Work(game) EXCEPT !.endTriggeredBy = s])))

\* the branch of a matching card without the cancellation of the ability
\* in progress
stackSuccess_NoCancel(w, s, targetPlayerId, handIndex, offensiveGiveIndex) ==
  LET chosenCard == HandGet(w.players[targetPlayerId].hand, handIndex)
      givenCard == IF targetPlayerId # s
                   THEN HandGet(w.players[s].hand, offensiveGiveIndex) ELSE Null
      m1 == [Emit(w, "card_animation", "room") EXCEPT
               !.players[targetPlayerId].hand = HandSet(@, handIndex, Null),
               !.faceUp = @ \cup {chosenCard},
               !.discardPile = Append(@, chosenCard)]
      m2 == IF givenCard # Null
            THEN [m1 EXCEPT
                    !.players[s].hand = HandSet(@, offensiveGiveIndex, Null),
                    !.faceUp = @ \ {givenCard},
                    !.knownToPlayer = @ \ {givenCard},
                    !.players[targetPlayerId].hand = HandSet(@, handIndex, givenCard)]
            ELSE m1
      canUseAbility == IF valueOf(chosenCard) = "8" THEN TRUE
                       ELSE CardsOf(m2.players[s].hand) # {}
  IN notifyRoom(
       [m2 EXCEPT !.activeAbility =
          IF valueOf(chosenCard) \in AbilityTypes /\ canUseAbility
          THEN [type |-> valueOf(chosenCard), player |-> s,
                jackPhase |-> "none", jackMyIndex |-> NoIdx]
          ELSE @])

\* execute_stack, the branch of a matching card (callerMatches): the card
\* goes to the discard pile, the caller may give a card, the ability is
\* cancelled or inherited
stackSuccess(w, s, targetPlayerId, handIndex, offensiveGiveIndex) ==
  LET chosenCard == HandGet(w.players[targetPlayerId].hand, handIndex)
      givenCard == IF targetPlayerId # s
                   THEN HandGet(w.players[s].hand, offensiveGiveIndex) ELSE Null
      \* success: the matched card goes to the discard pile
      m1 == [Emit(w, "card_animation", "room") EXCEPT
               !.players[targetPlayerId].hand = HandSet(@, handIndex, Null),
               !.faceUp = @ \cup {chosenCard},
               !.discardPile = Append(@, chosenCard)]
      \* offensive stack: the caller gives one of their cards
      m2 == IF givenCard # Null
            THEN [m1 EXCEPT
                    !.players[s].hand = HandSet(@, offensiveGiveIndex, Null),
                    !.faceUp = @ \ {givenCard},
                    !.knownToPlayer = @ \ {givenCard},
                    !.players[targetPlayerId].hand = HandSet(@, handIndex, givenCard)]
            ELSE m1
      canUseAbility == IF valueOf(chosenCard) = "8" THEN TRUE
                       ELSE CardsOf(m2.players[s].hand) # {}
  IN notifyRoom(
       [m2 EXCEPT !.activeAbility =
          IF valueOf(chosenCard) \in AbilityTypes /\ canUseAbility
          THEN [type |-> valueOf(chosenCard), player |-> s,
                jackPhase |-> "none", jackMyIndex |-> NoIdx]
          ELSE NoAbility])

\* the branch of a failed stack without the test of deck.length: the result
\* of deck.pop() is pushed on the caller's hand whatever it is
stackFail_NoLengthTest(w, s, chosenCard) ==
  LET f1 == [w EXCEPT
               !.deck = PopRest(@),
               !.faceUp = @ \ {PopCard(w.deck)},
               !.knownToPlayer = @ \ {PopCard(w.deck)},
               !.players[s].hand = Append(@, PopCard(w.deck))]
      f2 == IF chosenCard # Null THEN Emit(f1, "stack_reveal", s) ELSE f1
      f3 == notifyPlayer(f2, s)
  IN IF getOpponentId(w, s) # NoId
     THEN notifyPlayer(f3, getOpponentId(w, s)) ELSE f3

\* execute_stack, the branch of a failed stack: a blind penalty card for the
\* caller, the chosen card revealed to the caller
stackFail(w, s, chosenCard) ==
  LET f1 == IF w.deck # <<>>
            THEN [w EXCEPT
                    !.deck = PopRest(@),
                    !.faceUp = @ \ {PopCard(w.deck)},
                    !.knownToPlayer = @ \ {PopCard(w.deck)},
                    !.players[s].hand = Append(@, PopCard(w.deck))]
            ELSE w
      f2 == IF chosenCard # Null THEN Emit(f1, "stack_reveal", s) ELSE f1
      f3 == notifyPlayer(f2, s)
  IN IF getOpponentId(w, s) # NoId
     THEN notifyPlayer(f3, getOpponentId(w, s)) ELSE f3

\* execute_stack without the test for a hand left without a card
ExecuteStack_NoEmptyTest(s) ==
  /\ ~crashed
  /\ IF s \notin joined \/ ~game.stackWindow.active \/ game.stackWindow.caller # s THEN Ignore
     ELSE \E targetPlayerId \in SocketIds :
          \E handIndex \in IdxFor(game, targetPlayerId) :
          \E offensiveGiveIndex \in
               (IF targetPlayerId = s THEN {} ELSE IdxFor(game, s)) \cup {NoIdx} :
          IF targetPlayerId \notin DOMAIN game.players \/ s \notin DOMAIN game.players
     THEN Throw(Work(game))
     ELSE
       LET chosenCard == HandGet(game.players[targetPlayerId].hand, handIndex)
           callerMatches == chosenCard # Null /\ valueOf(chosenCard) = game.stackWindow.targetValue
           w == [(IF callerMatches
                  THEN stackSuccess(Work(game), s, targetPlayerId, handIndex, offensiveGiveIndex)
                  ELSE stackFail(Work(game), s, chosenCard))
                   EXCEPT !.stackWindow = NoStack]
       IN IF callerMatches /\ w.activeAbility.type = "none"
          THEN Move(checkEndGameAndAdvance(w))
          ELSE Move(sendGameState(w))

\* execute_stack{targetPlayerId, handIndex, offensiveGiveIndex}
ExecuteStack(s) ==
  /\ ~crashed
  /\ IF s \notin joined \/ ~game.stackWindow.active \/ game.stackWindow.caller # s THEN Ignore
     ELSE \E targetPlayerId \in SocketIds :
          \E handIndex \in IdxFor(game, targetPlayerId) :
          \E offensiveGiveIndex \in
               (IF targetPlayerId = s THEN {} ELSE IdxFor(game, s)) \cup {NoIdx} :
          IF targetPlayerId \notin DOMAIN game.players \/ s \notin DOMAIN game.players
     THEN Throw(Work(game))
     ELSE
       LET chosenCard == HandGet(game.players[targetPlayerId].hand, handIndex)
           callerMatches == chosenCard # Null /\ valueOf(chosenCard) = game.stackWindow.targetValue
           w == [(IF callerMatches
                  THEN stackSuccess(Work(game), s, targetPlayerId, handIndex, offensiveGiveIndex)
                  ELSE stackFail(Work(game), s, chosenCard))
                   EXCEPT !.stackWindow = NoStack]
           anyEmpty == \E i \in DOMAIN w.playerOrder :
                          CardsOf(w.players[w.playerOrder[i]].hand) = {}
       IN IF callerMatches /\ anyEmpty
          THEN Move(promptEndGame([w EXCEPT !.activeAbility = NoAbility]))
          ELSE IF callerMatches /\ w.activeAbility.type = "none"
          THEN Move(checkEndGameAndAdvance(w))
          ELSE Move(sendGameState(w))

\* play_ability_target{type, targetData: {myIndex, opponentId, oppIndex}}
PlayAbilityTarget(s) ==
  /\ ~crashed
  /\ IF s \notin joined \/ game.activeAbility.player # s THEN Ignore
     ELSE
       \E type \in AbilityTypes :
       IF game.activeAbility.type # type THEN Ignore
       ELSE
       \E myIndex \in (IF type = "8" THEN {0} ELSE IdxFor(game, s)) :
       \E opponentId \in (IF type \in {"K", "8"} THEN SocketIds ELSE {s}) :
       \E oppIndex \in (IF type \in {"K", "8"} THEN IdxFor(game, opponentId) ELSE {0}) :
       LET w0 == Work(game)
           finish(w) == checkEndGameAndAdvance([w EXCEPT !.activeAbility = NoAbility])
       IN CASE type = "K" ->
                 IF opponentId \notin DOMAIN game.players
                 THEN Throw(Emit(w0, "card_animation", "room"))
                 ELSE LET mine == HandGet(game.players[s].hand, myIndex)
                          theirs == HandGet(game.players[opponentId].hand, oppIndex)
                          w1 == [Emit(w0, "card_animation", "room") EXCEPT
                                   !.players[s].hand = HandSet(@, myIndex, theirs)]
                          w2 == [w1 EXCEPT
                                   !.players[opponentId].hand = HandSet(@, oppIndex, mine)]
                      IN Move(finish(notifyRoom(w2)))
            [] type = "J" ->
                 LET w1 == [w0 EXCEPT !.activeAbility.jackPhase = "opponent_choose",
                                      !.activeAbility.jackMyIndex = myIndex]
                     w2 == IF getOpponentId(game, s) # NoId
                           THEN notifyPlayer(w1, getOpponentId(game, s)) ELSE w1
                 IN Move(sendGameState(w2))
            [] type = "8" ->
                 IF opponentId \notin DOMAIN game.players
                 THEN Throw(w0)
                 ELSE IF HandGet(game.players[opponentId].hand, oppIndex) = Null
                 THEN Throw(w0)
                 ELSE LET revealedCard == HandGet(game.players[opponentId].hand, oppIndex)
                          w1 == [w0 EXCEPT !.knownToOpponent = @ \cup {revealedCard}]
                          w2 == notifyPlayer(Emit(w1, "ability_reveal", s), opponentId)
                      IN /\ moves < MaxMoves
                         /\ moves' = moves + 1
                         /\ Done(finish(w2))
                         /\ peekTimers' = Append(peekTimers,
                                             [card |-> revealedCard, flag |-> "knownToOpponent", by |-> s])
                         /\ UNCHANGED <<phase1Timers, deals>>
            [] type = "6" ->
                 IF HandGet(game.players[s].hand, myIndex) = Null
                 THEN Throw(w0)
                 ELSE LET revealedCard == HandGet(game.players[s].hand, myIndex)
                          w1 == [w0 EXCEPT !.knownToPlayer = @ \cup {revealedCard}]
                          w2 == Emit(w1, "ability_reveal", s)
                      IN /\ moves < MaxMoves
                         /\ moves' = moves + 1
                         /\ Done(finish(w2))
                         /\ peekTimers' = Append(peekTimers,
                                             [card |-> revealedCard, flag |-> "knownToPlayer", by |-> s])
                         /\ UNCHANGED <<phase1Timers, deals>>

\* jack_respond without the test that the sender is not the holder of the
\* jack
JackRespond_NoHolderTest(s) ==
  /\ ~crashed
  /\ IF s \notin joined \/ game.activeAbility.type # "J" THEN Ignore
     ELSE IF game.activeAbility.jackPhase # "opponent_choose" THEN Ignore
     ELSE IF s \notin DOMAIN game.players
     THEN Throw(Emit(Work(game), "card_animation", "room"))
     ELSE \E myIndex \in IdxFor(game, s) :
          LET jackPlayerId == game.activeAbility.player
              jackIndex == game.activeAbility.jackMyIndex
              temp == HandGet(game.players[jackPlayerId].hand, jackIndex)
              theirs == HandGet(game.players[s].hand, myIndex)
              w1 == [Emit(Work(game), "card_animation", "room") EXCEPT
                       !.players[jackPlayerId].hand = HandSet(@, jackIndex, theirs)]
              w == [w1 EXCEPT
                      !.players[s].hand = HandSet(@, myIndex, temp),
                      !.activeAbility = NoAbility]
          IN Move(checkEndGameAndAdvance(notifyRoom(w)))

\* jack_respond{myIndex}
JackRespond(s) ==
  /\ ~crashed
  /\ IF s \notin joined \/ game.activeAbility.type # "J" THEN Ignore
     ELSE IF game.activeAbility.jackPhase # "opponent_choose" THEN Ignore
     ELSE IF s = game.activeAbility.player THEN Ignore
     ELSE IF s \notin DOMAIN game.players
     THEN Throw(Emit(Work(game), "card_animation", "room"))
     ELSE \E myIndex \in IdxFor(game, s) :
          LET jackPlayerId == game.activeAbility.player
              jackIndex == game.activeAbility.jackMyIndex
              temp == HandGet(game.players[jackPlayerId].hand, jackIndex)
              theirs == HandGet(game.players[s].hand, myIndex)
              w == [Emit(Work(game), "card_animation", "room") EXCEPT
                      !.players[jackPlayerId].hand = HandSet(@, jackIndex, theirs),
                      !.players[s].hand = HandSet(@, myIndex, temp),
                      !.activeAbility = NoAbility]
          IN Move(checkEndGameAndAdvance(notifyRoom(w)))

\* the 5 s timer of an 8 or 6 ability: clears the flag it set on the card
\* object it captured (same delay for all of them, so oldest first)
PeekTimer ==
  /\ ~crashed
  /\ peekTimers # <<>>
  /\ peekTimers' = Tail(peekTimers)
  /\ LET t == Head(peekTimers)
         w == IF t.card = Null THEN Work(game)
              ELSE IF t.flag = "knownToOpponent"
              THEN [Work(game) EXCEPT !.knownToOpponent = @ \ {t.card}]
              ELSE [Work(game) EXCEPT !.knownToPlayer = @ \ {t.card}]
     IN Done(sendGameState(w))
  /\ UNCHANGED <<phase1Timers, moves, deals>>

\* the requests of the connections in S
Requests(S) ==
  \/ \E s \in S : JoinGame(s)
  \/ \E s \in S : PlayerReady(s)
  \/ \E s \in S : DrawDeck(s)
  \/ \E s \in S : DrawDiscard(s)
  \/ \E s \in S : SwapDrawnCard(s)
  \/ \E s \in S : DiscardDrawnCard(s)
  \/ \E s \in S : CallStack(s)
  \/ \E s \in S : PlayAgain(s)
  \/ \E s \in S : CallIt(s)
  \/ \E s \in S : ExecuteStack(s)
  \/ \E s \in S : PlayAbilityTarget(s)
  \/ \E s \in S : JackRespond(s)

\* ------------------------------------------------------------------ snapshot

\* a card as JSON.stringify writes it
CardView(g, c) ==
  IF c = Null
  THEN [id |-> <<"null", 0>>, suit |-> "null", value |-> "null", isFaceUp |-> FALSE,
        knownToPlayer |-> FALSE, knownToOpponent |-> FALSE]
  ELSE [id |-> <<"card", c>>, suit |-> suitOf(c), value |-> valueOf(c),
        isFaceUp |-> c \in g.faceUp,
        knownToPlayer |-> c \in g.knownToPlayer,
        knownToOpponent |-> c \in g.knownToOpponent]

\* the three assignments that blank a card; tag is 'hidden_' + i or
\* 'hidden_drawn'
Hide(view, tag) == [view EXCEPT !.value = "?", !.suit = "?", !.id = tag]

\* canSee without the test that a card known to the opponent lies in the
\* other player's hand
canSee_NoOtherHandTest(g, socketId, pId, i, c) ==
  \/ g.status = "phase1" /\ pId = socketId /\ (i = 2 \/ i = 3)
  \/ c \in g.knownToPlayer /\ pId = socketId
  \/ c \in g.knownToOpponent

\* canSee of sanitizeGameState, for the face-down card c in slot i (0-based)
\* of the hand of pId, in the snapshot for socketId
canSee(g, socketId, pId, i, c) ==
  \/ g.status = "phase1" /\ pId = socketId /\ (i = 2 \/ i = 3)
  \/ c \in g.knownToPlayer /\ pId = socketId
  \/ c \in g.knownToOpponent /\ pId # socketId

\* sanitizeGameState without the blanking of the drawn card
sanitizeGameState_NoDrawnHide(g, socketId) ==
  LET isPlaying == g.status \in {"playing", "phase1", "finished"}
      handView(pId) ==
        [k \in DOMAIN g.players[pId].hand |->
           LET c == g.players[pId].hand[k]
           IN IF isPlaying /\ c # Null /\ c \notin g.faceUp /\ g.status # "finished"
                 /\ ~canSee(g, socketId, pId, k - 1, c)
              THEN Hide(CardView(g, c), <<"hidden", k - 1>>)
              ELSE CardView(g, c)]
  IN [ status |-> g.status,
       players |-> [pId \in DOMAIN g.players |->
                      [g.players[pId] EXCEPT !.hand = handView(pId)]],
       playerOrder |-> g.playerOrder,
       turnIndex |-> g.turnIndex,
       deck |-> [k \in DOMAIN g.deck |-> CardView(g, g.deck[k])],
       discardPile |-> [k \in DOMAIN g.discardPile |-> CardView(g, g.discardPile[k])],
       drawnCard |-> CardView(g, g.drawnCard),
       activeAbility |-> g.activeAbility,
       stackWindow |-> g.stackWindow,
       endTriggeredBy |-> g.endTriggeredBy ]

\* sanitizeGameState: the deep copy of the game with the hidden cards blanked
sanitizeGameState(g, socketId) ==
  LET isPlaying == g.status \in {"playing", "phase1", "finished"}
      handView(pId) ==
        [k \in DOMAIN g.players[pId].hand |->
           LET c == g.players[pId].hand[k]
           IN IF isPlaying /\ c # Null /\ c \notin g.faceUp /\ g.status # "finished"
                 /\ ~canSee(g, socketId, pId, k - 1, c)
              THEN Hide(CardView(g, c), <<"hidden", k - 1>>)
              ELSE CardView(g, c)]
  IN [ status |-> g.status,
       players |-> [pId \in DOMAIN g.players |->
                      [g.players[pId] EXCEPT !.hand = handView(pId)]],
       playerOrder |-> g.playerOrder,
       turnIndex |-> g.turnIndex,
       deck |-> [k \in DOMAIN g.deck |-> CardView(g, g.deck[k])],
       discardPile |-> [k \in DOMAIN g.discardPile |-> CardView(g, g.discardPile[k])],
       drawnCard |-> IF isPlaying /\ g.drawnCard # Null /\ ActiveId(g) # socketId
                        /\ g.status # "finished"
                     THEN Hide(CardView(g, g.drawnCard), <<"hidden_drawn", 0>>)
                     ELSE CardView(g, g.drawnCard),
       activeAbility |-> g.activeAbility,
       stackWindow |-> g.stackWindow,
       endTriggeredBy |-> g.endTriggeredBy ]

Next ==
  \/ Phase1Timer
  \/ PeekTimer
  \/ Requests(Seated)

Spec == Init /\ [][Next]_vars

\* The timers of setTimeout fire once their delay has passed, as long as the
\* server runs.
FairSpec == Spec /\ WF_vars(Phase1Timer) /\ WF_vars(PeekTimer)

\* the room with the third connection: it joins after the two seats are
\* taken and sends nothing else
NextRoom ==
  \/ Next
  \/ JoinGame("s3")

SpecRoom == Init /\ [][NextRoom]_vars

\* A room right after the deal of player_ready has dealt the shuffle whose
\* pops come in the order tops: both seats taken and ready, status phase1.
DealtWith(tops) ==
  LET seat(n) == [number |-> n, hand |-> <<Null, Null, Null, Null>>,
                  score |-> 0, ready |-> TRUE, isFinalTurn |-> FALSE]
      g0 == [createGameState EXCEPT
               !.players = ("s1" :> seat(1)) @@ ("s2" :> seat(2)),
               !.playerOrder = <<"s1", "s2">>]
  IN sendGameState([dealInitial(Work(g0), Arrange(createDeck, tops))
                      EXCEPT !.status = "phase1"])

\* the room in state w of a handler's work, with the first 10 s timer pending
\* and one deal made
RoomAt(w) ==
  /\ game = [f \in DOMAIN createGameState |-> w[f]]
  /\ emitted = w.emitted
  /\ joined = Seated
  /\ phase1Timers = 1
  /\ peekTimers = <<>>
  /\ crashed = FALSE
  /\ moves = 0
  /\ deals = 1

\* pops of the deal:  Kh 2h 6h 3h | 7d 4h Jd 5h | 7c 9c 10c
TopsDealt == <<13, 2, 6, 3, 20, 4, 24, 5, 33, 35, 36>>

\* the room right after that deal, the 10 s timer pending
InitDealt ==
  /\ turnDrawn = FALSE
  /\ RoomAt(DealtWith(TopsDealt))

\* the same requests and timers, from the dealt room
SpecDealt == InitDealt /\ [][Next]_vars

\* the dealt room with the third connection, which joins without a seat and
\* sends call_stack
NextOpen ==
  \/ Next
  \/ JoinGame("s3")
  \/ CallStack("s3")

SpecOpen == InitDealt /\ [][NextOpen]_vars

\* pops of the deal:  9h 7h 7d 7s | Jd 4h 6d 5h | 7c 9c
TopsStacked == <<9, 7, 20, 46, 24, 4, 19, 5, 33, 35>>

\* The room, still in phase1 with its 10 s timer pending, after the requests
\*   s1 draw_deck (7c), s1 discard_drawn_card,
\*   s1 call_stack, s1 execute_stack{s1, 1} (7h),
\*   s1 call_stack, s1 execute_stack{s1, 2} (7d),
\*   s1 call_stack, s1 execute_stack{s1, 3} (7s),
\*   s1 draw_deck (9c), s1 discard_drawn_card
\* that follow the deal TopsStacked: s1 holds one card, the turn is s2's.
\* moves counts the requests from this state on.
InitStacked ==
  /\ turnDrawn = FALSE
  /\ LET d == DealtWith(TopsStacked)
         w == [d EXCEPT
                 !.players["s1"].hand = <<9, Null, Null, Null>>,
                 !.deck = SubSeq(d.deck, 1, Len(d.deck) - 2),
                 !.discardPile = <<33, 7, 20, 46, 35>>,
                 !.faceUp = {33, 7, 20, 46, 35},
                 !.turnIndex = 1]
     IN RoomAt(sendGameState(notifyRoom(Emit(w, "card_animation", "room"))))

\* the same requests and timers, from that room
SpecStacked == InitStacked /\ [][Next]_vars

\* The room after the deal of TopsDealt, a draw and a discard of the 7c by s1
\* and 44 failed stacks of s1 (call_stack, then execute_stack on the own
\* king): the penalty cards are in the hand of s1 in the order in which they
\* left the deck, and one card is left in the deck.
DrainedRoom ==
  LET d == DealtWith(TopsDealt)
      w == [d EXCEPT
              !.players["s1"].hand = @ \o Reverse(SubSeq(d.deck, 2, Len(d.deck) - 1)),
              !.deck = <<d.deck[1]>>,
              !.discardPile = <<33>>,
              !.faceUp = {33},
              !.turnIndex = 1]
  IN sendGameState(notifyPlayer(notifyPlayer(Emit(w, "stack_reveal", "s1"), "s1"), "s2"))

\* the number of requests followed from the drained room
DrainedMoves == 5

InitDrained ==
  /\ turnDrawn = FALSE
  /\ game = [f \in DOMAIN createGameState |-> DrainedRoom[f]]
  /\ emitted = DrainedRoom.emitted
  /\ joined = Seated
  /\ phase1Timers = 1
  /\ peekTimers = <<>>
  /\ crashed = FALSE
  /\ moves = MaxMoves - DrainedMoves
  /\ deals = 1

SpecDrained == InitDrained /\ [][Next]_vars

\* The room in which s1 is down to one card, an 8: after the deal of TopsLast
\* s1 has drawn and discarded the 7c, stacked the three sevens of the own
\* hand on it, then drawn and discarded the 8c, whose ability is pending.
TopsLast == <<8, 7, 20, 46, 24, 4, 19, 5, 33, 34>>

LastCardRoom ==
  LET d == DealtWith(TopsLast)
      w == [d EXCEPT
              !.players["s1"].hand = <<8, Null, Null, Null>>,
              !.deck = SubSeq(d.deck, 1, Len(d.deck) - 2),
              !.discardPile = <<33, 7, 20, 46, 34>>,
              !.faceUp = {33, 7, 20, 46, 34},
              !.activeAbility = [type |-> "8", player |-> "s1",
                                 jackPhase |-> "none", jackMyIndex |-> NoIdx]]
  IN sendGameState(notifyRoom(Emit(w, "card_animation", "room")))

\* the number of requests followed from the room of the last card
LastCardMoves == 5

InitLastCard ==
  /\ turnDrawn = TRUE
  /\ game = [f \in DOMAIN createGameState |-> LastCardRoom[f]]
  /\ emitted = LastCardRoom.emitted
  /\ joined = Seated
  /\ phase1Timers = 1
  /\ peekTimers = <<>>
  /\ crashed = FALSE
  /\ moves = MaxMoves - LastCardMoves
  /\ deals = 1

SpecLastCard == InitLastCard /\ [][Next]_vars

\* ------------------------------------------------------------------ claims

RECURSIVE CountIn(_, _)
CountIn(seq, c) ==
  IF seq = <<>> THEN 0 ELSE (IF Head(seq) = c THEN 1 ELSE 0) + CountIn(Tail(seq), c)

RECURSIVE SumOver(_, _, _)
SumOver(g, S, c) ==
  IF S = {} THEN 0
  ELSE LET s == CHOOSE x \in S : TRUE
       IN CountIn(g.players[s].hand, c) + SumOver(g, S \ {s}, c)

\* in how many places of the deck, the discard pile, the hands and the drawn
\* card the card c is held
HeldIn(g, c) ==
  CountIn(g.deck, c) + CountIn(g.discardPile, c) + SumOver(g, DOMAIN g.players, c)
    + (IF g.drawnCard = c THEN 1 ELSE 0)

\* a step of one of the turn and interrupt requests of connection s
TurnRequest(s) ==
  \/ DrawDeck(s) \/ DrawDiscard(s) \/ SwapDrawnCard(s) \/ DiscardDrawnCard(s)
  \/ CallStack(s) \/ ExecuteStack(s) \/ PlayAbilityTarget(s) \/ JackRespond(s)
  \/ CallIt(s)

\* C1: from the deal onward every one of the 54 cards is held by exactly one
\* of the deck, the discard pile, a hand slot and the drawn card.
C1_CardConservation ==
  game.status # "lobby" => \A c \in 1..54 : HeldIn(game, c) = 1

\* the snapshot shows the card's true rank, suit and identity
Shows(view, c) == view.id = <<"card", c>> /\ view.value = valueOf(c) /\ view.suit = suitOf(c)

\* C2: while the game is not finished, no snapshot sent to a player shows a
\* face-down card that this player is not entitled to see, whether the card
\* is in the deck, in a hand or the drawn card.
C2_NoLeak ==
  game.status # "finished" =>
    \A v \in DOMAIN game.players :
      <<"game_state_update", v>> \in emitted =>
        LET snap == sanitizeGameState(game, v)
        IN /\ \A k \in DOMAIN game.deck :
                game.deck[k] \notin game.faceUp => ~Shows(snap.deck[k], game.deck[k])
           /\ \A p \in DOMAIN game.players : \A k \in DOMAIN game.players[p].hand :
                LET c == game.players[p].hand[k]
                IN (c # Null /\ c \notin game.faceUp /\ Shows(snap.players[p].hand[k], c)) =>
                     \/ game.status = "phase1" /\ p = v /\ k \in {3, 4}
                     \/ p = v /\ c \in game.knownToPlayer
                     \/ p # v /\ c \in game.knownToOpponent
           /\ (game.drawnCard # Null /\ game.drawnCard \notin game.faceUp
               /\ Shows(snap.drawnCard, game.drawnCard)) => ActiveId(game) = v

\* C3: in a snapshot for viewer v with status phase1 or playing, a face-down
\* hand card keeps its rank, suit and identity exactly when (a) the status is
\* phase1 and it is in slot 2 or 3 of v's own hand, or (b) it is in v's own
\* hand and known to its owner, or (c) it is in the other hand and known to
\* the opponent; otherwise the three fields carry the unknown marker, and
\* the slots keep their positions.
C3_HandRedaction ==
  game.status \in {"phase1", "playing"} =>
    \A v \in DOMAIN game.players : \A p \in DOMAIN game.players :
      LET hand == game.players[p].hand
          shown == sanitizeGameState(game, v).players[p].hand
      IN /\ DOMAIN shown = DOMAIN hand
         /\ \A k \in DOMAIN hand :
              LET c == hand[k]
                  entitled == \/ game.status = "phase1" /\ p = v /\ (k - 1) \in {2, 3}
                              \/ p = v /\ c \in game.knownToPlayer
                              \/ p # v /\ c \in game.knownToOpponent
              IN (c # Null /\ c \notin game.faceUp) =>
                   /\ entitled <=> Shows(shown[k], c)
                   /\ ~entitled => /\ shown[k].id = <<"hidden", k - 1>>
                                   /\ shown[k].value = "?"
                                   /\ shown[k].suit = "?"

\* a playing state in which a card peeked at with an 8 is shown to the
\* player who peeked and blanked for its owner
C3_Witness ==
  /\ game.status = "playing"
  /\ \E v \in DOMAIN game.players : \E p \in DOMAIN game.players \ {v} :
       \E k \in DOMAIN game.players[p].hand :
         LET c == game.players[p].hand[k]
         IN /\ c # Null
            /\ c \notin game.faceUp
            /\ c \in game.knownToOpponent
            /\ c \notin game.knownToPlayer
            /\ Shows(sanitizeGameState(game, v).players[p].hand[k], c)
            /\ sanitizeGameState(game, p).players[p].hand[k].value = "?"

\* the drawn card of the state before the step is, after it, in the hand of
\* the player who held the turn or on the discard pile
Placed ==
  \/ game.drawnCard \in CardsOf(game'.players[ActiveId(game)].hand)
  \/ CountIn(game'.discardPile, game.drawnCard) > 0

\* C4: turnIndex changes only to the next seat modulo the number of seats; a
\* step that changes it leaves no ability set, and changes it while a card is
\* drawn only by placing or discarding that card.
C4_TurnOrder ==
  [][game'.turnIndex # game.turnIndex =>
       /\ game'.turnIndex = (game.turnIndex + 1) % Len(game.playerOrder)
       /\ game'.activeAbility.type = "none"
       /\ game.drawnCard # Null => Placed]_vars

\* C5: no reachable state has both a drawn card pending and an ability
\* pending.
C5_ModeExclusion ==
  ~(game.drawnCard # Null /\ game.activeAbility.type # "none")

\* C6: once the game is finished, every request other than play_again leaves
\* the game unchanged.
C6_FinishedTerminal ==
  [][\A s \in Seated : (game.status = "finished" /\ TurnRequest(s)) => game' = game]_vars

\* C7: while an ability is pending, draw_deck, draw_discard, swap_drawn_card,
\* discard_drawn_card and call_it leave the game unchanged.
C7_AbilityLock ==
  [][\A s \in Seated :
       (/\ game.activeAbility.type # "none"
        /\ \/ DrawDeck(s) \/ DrawDiscard(s) \/ SwapDrawnCard(s)
           \/ DiscardDrawnCard(s) \/ CallIt(s))
       => game' = game]_vars

\* C8: while the status is lobby or phase1, the turn and interrupt requests
\* leave the game unchanged.
C8_WrongPhaseIgnored ==
  [][\A s \in Seated :
       (game.status \in {"lobby", "phase1"} /\ TurnRequest(s)) => game' = game]_vars

\* the guard of the two draw requests
DrawGuard(s) ==
  ActiveId(game) = s /\ game.drawnCard = Null /\ game.activeAbility.type = "none"

\* C9: draw_deck and draw_discard change the state only when the sender holds
\* the turn, no card is drawn and no ability is pending (and, for
\* draw_discard, the discard pile is not empty); otherwise nothing changes
\* and nothing is sent.
C9_DrawGuards ==
  [][\A s \in Seated :
       /\ (DrawDeck(s) /\ ~DrawGuard(s)) => UNCHANGED vars
       /\ (DrawDiscard(s) /\ ~(DrawGuard(s) /\ game.discardPile # <<>>)) => UNCHANGED vars]_vars

\* a card has been drawn from the deck and is pending, with cards on the
\* discard pile: a further draw_deck or draw_discard of either player meets
\* a failing guard
C9_Witness ==
  /\ game.status = "playing"
  /\ game.drawnCard # Null
  /\ game.discardPile # <<>>
  /\ moves < MaxMoves

StatusRank(st) ==
  CASE st = "lobby" -> 0 [] st = "phase1" -> 1 [] st = "playing" -> 2 [] st = "finished" -> 3

\* C10: the status only moves forward along lobby, phase1, playing, finished,
\* except for finished to phase1, which only play_again causes.
C10_StatusMonotone ==
  [][\/ StatusRank(game'.status) >= StatusRank(game.status)
     \/ /\ game.status = "finished"
        /\ game'.status = "phase1"
        /\ \E s \in Seated : PlayAgain(s)]_vars

\* the game was finished and dealt again, and the new game is being played
C10_Witness ==
  /\ deals = 2
  /\ game.status = "playing"

\* C11: call_stack changes the state only when the discard pile is not empty
\* and no stack window is active; it then sets stackWindow to active with the
\* sender as caller and the rank of the top discard as targetValue, whoever
\* holds the turn and whether or not an ability is pending, and changes
\* nothing else of the game.  With a window active it changes nothing.
C11_StackWindowOpening ==
  [][\A s \in Seated :
       CallStack(s) =>
         IF game.discardPile # <<>> /\ ~game.stackWindow.active
         THEN game' = [game EXCEPT !.stackWindow =
                         [active |-> TRUE, caller |-> s,
                          targetValue |-> valueOf(game.discardPile[Len(game.discardPile)])]]
         ELSE UNCHANGED vars]_vars

\* a window opened by the player who does not hold the turn while an ability
\* is pending, with a further request still possible
C11_Witness ==
  /\ game.stackWindow.active
  /\ game.stackWindow.caller # ActiveId(game)
  /\ game.stackWindow.targetValue = valueOf(game.discardPile[Len(game.discardPile)])
  /\ game.activeAbility.type # "none"
  /\ moves < MaxMoves

\* C12: once a player has called it, the first step that hands the turn back
\* to that player finishes the game, so the player who called it is not the
\* active player of a playing state again in that game.
C12_CallItEndsOnReturn ==
  [][(/\ game.status = "playing"
      /\ game.endTriggeredBy # NoId
      /\ ActiveId(game) # game.endTriggeredBy
      /\ ActiveId(game') = game.endTriggeredBy)
     => game'.status = "finished"]_vars

\* C13: after a call_it the game is scored through the call-it path (the turn
\* advance that reaches the caller) only when the player whose turn ends has
\* drawn a card in that turn and placed or discarded it.
C13_CallItFullCycle ==
  [][(/\ game.status = "playing"
      /\ game'.status = "finished"
      /\ game'.turnIndex # game.turnIndex)
     => \/ turnDrawn /\ game.drawnCard = Null
        \/ game.drawnCard # Null /\ Placed
        \/ DrawDiscard(ActiveId(game))]_vars

\* the step ran the end-of-turn check: a request that resolves a discard (a
\* placed or discarded card, a resolved ability, a matching stack) and leaves
\* no ability pending
CheckRuns ==
  /\ game' # game
  /\ game'.activeAbility.type = "none"
  /\ \E s \in Seated :
       \/ DrawDiscard(s) \/ SwapDrawnCard(s) \/ DiscardDrawnCard(s)
       \/ PlayAbilityTarget(s) \/ JackRespond(s)
       \/ ExecuteStack(s) /\ Len(game'.discardPile) > Len(game.discardPile)

\* at the check, the hand of the player holding the turn had only face-up
\* cards or empty slots: its cards were face-up before the step and did not
\* enter the hand face-down in this step (a card that enters a hand from the
\* drawn card, a pile or as a stack gift is turned face-down; a K or J swap
\* keeps the faces)
HandOpen ==
  \A c \in CardsOf(game'.players[ActiveId(game)].hand) :
    /\ c \in game.faceUp
    /\ \/ c \in CardsOf(game.players[ActiveId(game)].hand)
       \/ \E s \in Seated : PlayAbilityTarget(s) \/ JackRespond(s)

PlainWorth ==
  ("A" :> 1) @@ ("2" :> 2) @@ ("3" :> 3) @@ ("4" :> 4) @@ ("5" :> 5) @@ ("6" :> 6)
    @@ ("7" :> 7) @@ ("8" :> 8) @@ ("9" :> 9) @@ ("10" :> 10) @@ ("J" :> 10) @@ ("K" :> 10)

\* the worth of a rank and suit
WorthOf(rank, suit) ==
  IF rank = "Joker" THEN 0 - 1
  ELSE IF rank = "Q"
       THEN (IF suit \in {"hearts", "diamonds"} THEN 0 ELSE 10)
       ELSE PlainWorth[rank]

\* the worth of a card
Worth(c) == WorthOf(valueOf(c), suitOf(c))

\* the worth of the cards in the slots S of hand h
RECURSIVE WorthOver(_, _)
WorthOver(h, S) ==
  IF S = {} THEN 0
  ELSE LET i == CHOOSE x \in S : TRUE
       IN (IF h[i] = Null THEN 0 ELSE Worth(h[i])) + WorthOver(h, S \ {i})

\* C15: a step that brings the game to finished leaves every card of every
\* hand face-up and each player's score equal to the sum of the worth of the
\* cards in that player's hand, penalty cards past slot 3 included.
C15_ScoringAtEnd ==
  [][(game.status # "finished" /\ game'.status = "finished") =>
       \A p \in DOMAIN game'.players :
         /\ CardsOf(game'.players[p].hand) \subseteq game'.faceUp
         /\ game'.players[p].score =
              WorthOver(game'.players[p].hand, DOMAIN game'.players[p].hand)]_vars

\* a game finished just now (nothing drawn or called since) in which a hand
\* holds a penalty card past slot 3
C15_Witness ==
  /\ game.status = "finished"
  /\ game.endTriggeredBy = ActiveId(game)
  /\ \E p \in DOMAIN game.players :
       /\ Len(game.players[p].hand) > 4
       /\ game.players[p].hand[5] # Null
       /\ game.players[p].score =
            WorthOver(game.players[p].hand, DOMAIN game.players[p].hand)
       /\ game.players[p].score # WorthOver(game.players[p].hand, 1..4)

\* the cards the game holds anywhere
CardsInGame(g) ==
  {g.deck[i] : i \in DOMAIN g.deck} \cup {g.discardPile[i] : i \in DOMAIN g.discardPile}
    \cup ({g.drawnCard} \ {Null})
    \cup UNION {CardsOf(g.players[p].hand) : p \in DOMAIN g.players}

\* C16: the value of a card is -1 for a joker, 0 for the queen of hearts or
\* diamonds, 1 for an ace, 10 for a jack, a king or a queen of clubs or
\* spades, and the number for 2 to 10; it is defined for every card of the
\* deck and is a function of the rank and the suit alone.
C16_CardValue ==
  \A c \in CardsInGame(game) : getCardValue(c) = WorthOf(valueOf(c), suitOf(c))

\* the 54 cards of createDeck are in the game, and a hand holding a king has
\* been scored
C16_Witness ==
  /\ CardsInGame(game) = 1..54
  /\ game.status = "finished"
  /\ \E p \in DOMAIN game.players :
       /\ \E c \in CardsOf(game.players[p].hand) : valueOf(c) = "K"
       /\ game.players[p].score = calculateScore(game.players[p].hand)

\* C17: right after a deal for two players, at ready-up and at replay, the
\* deck holds 46 cards, each hand holds 4 cards, the 54 cards are all
\* distinct, every card is face-down, and in each hand exactly slots 2 and 3
\* are marked as known to their owner.
C17_Deal ==
  [][deals' # deals =>
       /\ Len(game'.deck) = 46
       /\ game'.discardPile = <<>>
       /\ game'.drawnCard = Null
       /\ Cardinality(CardsInGame(game')) = 54
       /\ game'.faceUp = {}
       /\ \A p \in DOMAIN game'.players :
            /\ Len(game'.players[p].hand) = 4
            /\ \A k \in 1..4 :
                 /\ game'.players[p].hand[k] # Null
                 /\ game'.players[p].hand[k] \in game'.knownToPlayer <=> k \in {3, 4}
       /\ \A i \in DOMAIN game'.deck : game'.deck[i] \notin game'.knownToPlayer]_vars

\* the second deal (a replay) has just been made
C17_Witness ==
  /\ deals = 2
  /\ game.status = "phase1"
  /\ Len(game.deck) = 46
  /\ Cardinality(DOMAIN game.players) = 2

\* C18: no request raises an exception in its handler: every message is
\* either applied or ignored, whoever sends it and whatever player id or
\* hand slot it names.
C18_NoFatalRequest == ~crashed

\* C19: a 10 s timer acts only on the deal that scheduled it: when the game
\* has been finished and dealt again by play_again before the timer of the
\* earlier deal fires, that firing changes nothing, and the new deal stays
\* in phase1 until its own timer fires.  (Timers fire in the order in which
\* they were scheduled, so with two pending the one that fires is the
\* earlier deal's.)
C19_StaleTimerNoOp ==
  [][(Phase1Timer /\ phase1Timers > 1) => game' = game]_vars

\* C20: when the 10 s timer takes the game from phase1 to playing, no card in
\* any hand is marked as known to its owner any more, and no player's
\* snapshot shows a face-down card of that player's own hand.
C20_MemorizationEnds ==
  [][(game.status = "phase1" /\ game'.status = "playing") =>
       \A p \in DOMAIN game'.players : \A k \in DOMAIN game'.players[p].hand :
         LET c == game'.players[p].hand[k]
         IN c # Null =>
              /\ c \notin game'.knownToPlayer
              /\ c \notin game'.faceUp =>
                   ~Shows(sanitizeGameState(game', p).players[p].hand[k], c)]_vars

\* C21: when the second of the two seated players becomes ready in the lobby,
\* the game is dealt and enters phase1 in that step; and every phase1 state
\* is followed by a state that is no longer phase1 (playing or finished),
\* given that the timer fires, that is, as long as the server runs.
C21_Phase1Ends ==
  /\ [][\A s \in Seated :
          (/\ PlayerReady(s)
           /\ game.status = "lobby"
           /\ Len(game.playerOrder) = 2
           /\ \A p \in DOMAIN game.players : p = s \/ game.players[p].ready)
          => (game'.status = "phase1" /\ Len(game'.deck) = 46)]_vars
  /\ (game.status = "phase1") ~> (game.status \in {"playing", "finished"} \/ crashed)

\* a game that left phase1 through its timer and is being played
C21_Witness ==
  /\ game.status = "playing"
  /\ phase1Timers = 0
  /\ deals = 1
  /\ ~crashed

\* the snapshot for viewer v shows the face-down hand card c
ShownTo(g, v, c) ==
  \E p \in DOMAIN g.players : \E k \in DOMAIN g.players[p].hand :
    /\ g.players[p].hand[k] = c
    /\ Shows(sanitizeGameState(g, v).players[p].hand[k], c)

\* a peek at card c by player u is pending
Peeking(u, c) ==
  \E i \in DOMAIN peekTimers : peekTimers[i].card = c /\ peekTimers[i].by = u

\* C22: while the timer of an 8 or 6 peek at a card is pending, the card is
\* shown only in the snapshots of the player who used the ability, never in
\* the other player's (unless that player is peeking at it too or it is a
\* card dealt to that player's bottom row in phase1), whatever requests come
\* in between; and when the last timer of a card has fired in a playing game
\* the card is shown to neither player.
C22_PeekPrivacy ==
  /\ [](\A i \in DOMAIN peekTimers :
          LET c == peekTimers[i].card
              u == peekTimers[i].by
          IN (c # Null /\ c \notin game.faceUp /\ game.status = "playing") =>
               \A v \in DOMAIN game.players \ {u} :
                 ShownTo(game, v, c) => Peeking(v, c))
  /\ [][(/\ PeekTimer
         /\ Head(peekTimers).card # Null
         /\ Head(peekTimers).card \notin game'.faceUp
         /\ game'.status = "playing"
         /\ \A i \in DOMAIN peekTimers' : peekTimers'[i].card # Head(peekTimers).card)
        => \A v \in DOMAIN game'.players : ~ShownTo(game', v, Head(peekTimers).card)]_vars

\* the flag a peek timer clears is set on its card
FlagSet(g, t) ==
  IF t.flag = "knownToOpponent" THEN t.card \in g.knownToOpponent
  ELSE t.card \in g.knownToPlayer

\* C23: a timer of a 6 or 8 peek ends only the peek it was scheduled for: when
\* it fires while a later peek of the same card with the same flag is
\* pending, the flag stays set; and every flag set by a peek is cleared in
\* the end (as long as the server runs).
C23_PeekExpiry ==
  /\ [][(/\ PeekTimer
         /\ Head(peekTimers).card # Null
         /\ \E i \in 2..Len(peekTimers) :
              /\ peekTimers[i].card = Head(peekTimers).card
              /\ peekTimers[i].flag = Head(peekTimers).flag)
        => FlagSet(game', Head(peekTimers))]_vars
  /\ (\E i \in DOMAIN peekTimers : peekTimers[i].card # Null /\ FlagSet(game, peekTimers[i]))
       ~> (crashed \/ \A i \in DOMAIN peekTimers :
                        peekTimers[i].card = Null \/ ~FlagSet(game, peekTimers[i]))


\* a request whose handler does nothing but produce the snapshots: join_game
\* from a seated connection or into a full room, player_ready from a player
\* who is ready already outside a lobby that is complete
OnlySends(s) ==
  /\ UNCHANGED <<phase1Timers, peekTimers, crashed, moves, deals, turnDrawn>>
  /\ \/ (s \in DOMAIN game.players \/ Len(game.playerOrder) >= 2) /\ JoinGame(s)
     \/ /\ s \in joined
        /\ s \in DOMAIN game.players
        /\ game.players[s].ready
        /\ ~(game.status = "lobby" /\ Len(game.playerOrder) = 2
             /\ \A p \in DOMAIN game.players : game.players[p].ready)
        /\ PlayerReady(s)

C25_RoomMembership ==
  /\ [](/\ Cardinality(DOMAIN game.players) <= 2
        /\ Len(game.playerOrder) = Cardinality(DOMAIN game.players)
        /\ {game.playerOrder[i] : i \in DOMAIN game.playerOrder} = DOMAIN game.players
        /\ \A i \in DOMAIN game.playerOrder : game.players[game.playerOrder[i]].number = i)
  /\ [][/\ Len(game.playerOrder) <= Len(game'.playerOrder)
        /\ SubSeq(game'.playerOrder, 1, Len(game.playerOrder)) = game.playerOrder]_vars
  /\ [][\A s \in SocketIds :
          (/\ s \in DOMAIN game.players \/ Len(game.playerOrder) >= 2
           /\ UNCHANGED <<phase1Timers, peekTimers, crashed, moves, deals, turnDrawn>>
           /\ JoinGame(s))
          => game' = game]_vars

\* the third connection has joined the full room of a running game and has
\* no seat
C25_Witness ==
  /\ "s3" \in joined
  /\ "s3" \notin DOMAIN game.players
  /\ game.playerOrder = <<"s1", "s2">>
  /\ game.status = "playing"
  /\ emitted = {<<"game_state_update", "s1">>, <<"game_state_update", "s2">>}


\* C26: a drawn card appears only by a draw_deck of the player whose turn it
\* is; as long as that card stays the drawn card the turn stays with that
\* player; and in every state of a game that is not finished the snapshot of
\* the player whose turn it is shows the drawn card's rank, suit and id while
\* every other seated player's snapshot carries "?" and 'hidden_drawn'.
C26_DrawnCardPrivate ==
  /\ [][(game'.drawnCard # Null /\ game'.drawnCard # game.drawnCard)
        => \E s \in Seated : s = ActiveId(game) /\ s = ActiveId(game') /\ DrawDeck(s)]_vars
  /\ [][(game.drawnCard # Null /\ game'.drawnCard = game.drawnCard)
        => ActiveId(game') = ActiveId(game)]_vars
  /\ []((game.drawnCard # Null /\ game.status # "finished") =>
          \A v \in DOMAIN game.players :
            LET view == sanitizeGameState(game, v).drawnCard
            IN IF v = ActiveId(game)
               THEN Shows(view, game.drawnCard)
               ELSE /\ view.value = "?"
                    /\ view.suit = "?"
                    /\ view.id = <<"hidden_drawn", 0>>)

\* the player whose turn it is holds a drawn card after other requests came
\* in, and the other player's snapshot hides it
C26_Witness ==
  /\ game.status = "playing"
  /\ game.drawnCard # Null
  /\ game.stackWindow.active
  /\ \E v \in DOMAIN game.players :
       /\ v # ActiveId(game)
       /\ sanitizeGameState(game, v).drawnCard.value = "?"
       /\ Shows(sanitizeGameState(game, ActiveId(game)).drawnCard, game.drawnCard)


\* the cards player s held, in the hand or as the drawn card, before the step
\* and holds no longer
GivenUp(s) ==
  (CardsOf(game.players[s].hand) \cup ({game.drawnCard} \ {Null}))
    \ (CardsOf(game'.players[s].hand) \cup {game'.drawnCard})

\* C27: when an accepted discard_drawn_card, swap_drawn_card or draw_discard
\* takes a card from the sender (the drawn card, or the card of the slot
\* named), that card is face-up on top of the discard pile after the step;
\* if its rank is K, J, 8 or 6, activeAbility is {type: the rank, player: the
\* sender} and turnIndex is unchanged; for any other rank the step sets no
\* ability (activeAbility is as before) and the end-of-turn check runs: the
\* game is finished or the turn passes to the next player with no drawn card.
C27_AbilityOnDiscard ==
  [][\A s \in Seated :
       (/\ moves' # moves
        /\ s \in DOMAIN game.players
        /\ DrawDiscard(s) \/ SwapDrawnCard(s) \/ DiscardDrawnCard(s))
       => \A c \in GivenUp(s) :
            /\ game'.discardPile # <<>>
            /\ game'.discardPile[Len(game'.discardPile)] = c
            /\ c \in game'.faceUp
            /\ IF valueOf(c) \in AbilityTypes
               THEN /\ game'.activeAbility.type = valueOf(c)
                    /\ game'.activeAbility.player = s
                    /\ game'.turnIndex = game.turnIndex
               ELSE /\ game'.activeAbility = game.activeAbility
                    /\ \/ game'.status = "finished"
                       \/ /\ game'.turnIndex = (game.turnIndex + 1) % Len(game.playerOrder)
                          /\ game'.drawnCard = Null]_vars

\* the player whose turn it is has just put the first card, a K, J, 8 or 6,
\* on the discard pile and holds its ability
C27_Witness ==
  /\ game.status = "playing"
  /\ Len(game.discardPile) = 1
  /\ game.discardPile[1] \in game.faceUp
  /\ game.activeAbility.type = valueOf(game.discardPile[1])
  /\ game.activeAbility.player = ActiveId(game)
  /\ game.drawnCard = Null
  /\ turnDrawn
  /\ <<"card_animation", "room">> \in emitted


\* an accepted execute_stack of s that took the branch of a matching card
\* (the one that sends the card animation)
StackMatchStep(s) ==
  /\ moves' # moves
  /\ game.stackWindow.active
  /\ game.stackWindow.caller = s
  /\ <<"card_animation", "room">> \in emitted'
  /\ ExecuteStack(s)

\* C28: execute_stack from anyone but the caller of an active window changes
\* nothing; when the caller's chosen card matches, a card of the rank
\* targetValue leaves a slot of the target hand, which becomes empty or
\* receives a card the caller held, and is pushed face-up on the discard
\* pile; the ability that was in progress is gone (activeAbility is empty or
\* the fresh ability inherited from the matched card); the window is reset.
C28_StackSuccess ==
  /\ [][\A s \in Seated :
          (~(game.stackWindow.active /\ game.stackWindow.caller = s) /\ ExecuteStack(s))
          => UNCHANGED vars]_vars
  /\ [][\A s \in Seated :
          StackMatchStep(s) =>
            \E p \in DOMAIN game.players : \E k \in DOMAIN game.players[p].hand :
              LET c == game.players[p].hand[k]
                  n == game'.players[p].hand[k]
              IN /\ c # Null
                 /\ valueOf(c) = game.stackWindow.targetValue
                 /\ game'.discardPile = Append(game.discardPile, c)
                 /\ c \in game'.faceUp
                 /\ \/ n = Null
                    \/ /\ p # s
                       /\ n \in CardsOf(game.players[s].hand)
                       /\ n \notin CardsOf(game'.players[s].hand)
                 /\ game'.activeAbility \in
                      {NoAbility, [type |-> valueOf(c), player |-> s,
                                   jackPhase |-> "none", jackMyIndex |-> NoIdx]}
                 /\ game'.stackWindow = NoStack]_vars

\* a stack has just succeeded: the top of the discard pile has the rank of
\* the card below it, a hand has an empty slot and the window is closed
C28_Witness ==
  /\ game.status = "playing"
  /\ Len(game.discardPile) >= 2
  /\ valueOf(game.discardPile[Len(game.discardPile)])
       = valueOf(game.discardPile[Len(game.discardPile) - 1])
  /\ game.discardPile[Len(game.discardPile)] \in game.faceUp
  /\ ~game.stackWindow.active
  /\ <<"card_animation", "room">> \in emitted
  /\ \E p \in DOMAIN game.players : \E k \in 1..4 : game.players[p].hand[k] = Null


\* no seated player's hand is without a card
NoHandEmpty(g) == \A p \in DOMAIN g.players : CardsOf(g.players[p].hand) # {}

\* the ability a stack of card c hands to caller s
Inherited(c, s) ==
  [type |-> valueOf(c), player |-> s, jackPhase |-> "none", jackMyIndex |-> NoIdx]

\* the step of a matching execute_stack that leaves no hand empty: the caller
\* inherits the ability of the matched card exactly when its rank is 8, or
\* K, J or 6 with a card left in the caller's hand, and the turn stays;
\* otherwise no ability is pending and the end-of-turn check has run
InheritStep ==
  \A s \in Seated :
    (StackMatchStep(s) /\ NoHandEmpty(game')) =>
      LET c == game'.discardPile[Len(game'.discardPile)]
      IN IF \/ valueOf(c) = "8"
            \/ valueOf(c) \in {"K", "J", "6"} /\ CardsOf(game'.players[s].hand) # {}
         THEN /\ game'.activeAbility = Inherited(c, s)
              /\ game'.turnIndex = game.turnIndex
         ELSE /\ game'.activeAbility = NoAbility
              /\ \/ game'.status = "finished"
                 \/ /\ game'.turnIndex = (game.turnIndex + 1) % Len(game.playerOrder)
                    /\ game'.drawnCard = Null

\* C29: a matching execute_stack that leaves no hand empty hands the caller
\* the ability of the matched card exactly when its rank is 8, or K, J or 6
\* with a card left in the caller's hand, and otherwise leaves no ability
\* and runs the end-of-turn check in the same step; and as long as a pending
\* ability has not been resolved or cancelled (activeAbility stays as it
\* is), turnIndex does not change.
C29_InheritedAbility ==
  /\ [][InheritStep]_vars
  /\ [][(game.activeAbility.type # "none" /\ game'.activeAbility = game.activeAbility)
        => game'.turnIndex = game.turnIndex]_vars


\* an accepted execute_stack of s that took the branch of a failed stack (no
\* card animation is sent and the handler returns normally)
StackFailStep(s) ==
  /\ moves' # moves
  /\ crashed' = crashed
  /\ game.stackWindow.active
  /\ game.stackWindow.caller = s
  /\ <<"card_animation", "room">> \notin emitted'
  /\ ExecuteStack(s)

\* C30: a failed execute_stack of the caller s moves no card of the hands as
\* they were and leaves the discard pile as it is: the other player's hand
\* is unchanged and the caller's hand is the old hand with the last card of
\* the deck appended, face-down and marked as known to nobody (the old hand
\* itself when the deck is empty); no other card changes its face or its
\* marks; turnIndex, drawnCard, activeAbility and status are unchanged; a
\* stack_reveal goes to nobody but the caller; the window is reset.
C30_StackFail ==
  [][\A s \in Seated :
       StackFailStep(s) =>
         LET pc == PopCard(game.deck)
         IN /\ game'.discardPile = game.discardPile
            /\ \A p \in DOMAIN game.players \ {s} : game'.players[p] = game.players[p]
            /\ game'.deck = PopRest(game.deck)
            /\ game'.players[s].hand =
                 (IF game.deck = <<>> THEN game.players[s].hand
                  ELSE Append(game.players[s].hand, pc))
            /\ pc \notin game'.faceUp \cup game'.knownToPlayer \cup game'.knownToOpponent
            /\ game'.faceUp = game.faceUp \ {pc}
            /\ game'.knownToPlayer = game.knownToPlayer \ {pc}
            /\ game'.knownToOpponent = game.knownToOpponent
            /\ game'.turnIndex = game.turnIndex
            /\ game'.drawnCard = game.drawnCard
            /\ game'.activeAbility = game.activeAbility
            /\ game'.status = game.status
            /\ \A v \in SocketIds \cup {"room"} : <<"stack_reveal", v>> \in emitted' => v = s
            /\ game'.stackWindow = NoStack]_vars

\* in the drained room s1 has failed two stacks in a row: the first took the
\* last card of the deck as the penalty, the second found the deck empty and
\* left the hand of s1 as it was
C30_Witness ==
  /\ game.deck = <<>>
  /\ moves = MaxMoves - DrainedMoves + 4
  /\ Len(game.players["s1"].hand) = 49
  /\ game.players["s1"].hand[49] # Null
  /\ game.players["s1"].hand[49]
       \notin game.faceUp \cup game.knownToPlayer \cup game.knownToOpponent
  /\ ~game.stackWindow.active
  /\ <<"stack_reveal", "s1">> \in emitted
  /\ <<"card_animation", "room">> \notin emitted


\* C31: when a matching execute_stack leaves a player's hand without a card,
\* the same step finishes the game: status is finished, every hand card is
\* face-up, every score is the worth of the hand, and no ability is pending,
\* whatever the rank of the matched card.
C31_EmptyHandEnds ==
  [][\A s \in Seated :
       (StackMatchStep(s) /\ ~NoHandEmpty(game')) =>
         /\ game'.status = "finished"
         /\ game'.activeAbility = NoAbility
         /\ \A p \in DOMAIN game'.players :
              /\ CardsOf(game'.players[p].hand) \subseteq game'.faceUp
              /\ game'.players[p].score =
                   WorthOver(game'.players[p].hand, DOMAIN game'.players[p].hand)]_vars

\* the last card of s1, the 8h, has just been stacked on the 8c: the hand is
\* empty, the game is finished and the ability of the 8 is not inherited
C31_Witness ==
  /\ game.status = "finished"
  /\ CardsOf(game.players["s1"].hand) = {}
  /\ game.discardPile = <<33, 7, 20, 46, 34, 8>>
  /\ game.activeAbility = NoAbility
  /\ ~game.stackWindow.active
  /\ <<"card_animation", "room">> \in emitted
  /\ game.players["s2"].score =
       WorthOver(game.players["s2"].hand, DOMAIN game.players["s2"].hand)


\* an accepted play_ability_target of the holder s of a pending ability of
\* the given type
AbilityStep(s, type) ==
  /\ game.activeAbility.type = type
  /\ game.activeAbility.player = s
  /\ moves' # moves
  /\ crashed' = crashed
  /\ PlayAbilityTarget(s)

\* C32: the play_ability_target of the holder s of a king ability that
\* reaches into the opponent's hand, in a game being played, exchanges the
\* contents of a slot of the hand of s and a slot of the opponent's hand,
\* clears activeAbility, and leaves both exchanged cards hidden: face-down
\* and marked neither as known to the owner nor as known to the opponent
\* (unless the step finishes the game), so that no snapshot shows them.
C32_KingSwap ==
  [][\A s \in Seated :
       LET o == getOpponentId(game, s)
       IN (/\ game.status = "playing"
           /\ AbilityStep(s, "K")
           /\ o # NoId
           /\ game'.players[o].hand # game.players[o].hand) =>
            /\ game'.activeAbility = NoAbility
            /\ \E i \in DOMAIN game.players[s].hand : \E j \in DOMAIN game.players[o].hand :
                 LET a == game.players[s].hand[i]
                     b == game.players[o].hand[j]
                 IN /\ game'.players[s].hand = [game.players[s].hand EXCEPT ![i] = b]
                    /\ game'.players[o].hand = [game.players[o].hand EXCEPT ![j] = a]
                    /\ game'.status # "finished" =>
                         /\ ({a, b} \ {Null}) \cap
                              (game'.faceUp \cup game'.knownToPlayer \cup game'.knownToOpponent)
                              = {}
                         /\ \A v \in DOMAIN game.players : \A c \in {a, b} \ {Null} :
                              ~ShownTo(game', v, c)]_vars


\* C33: the play_ability_target of the holder of a jack moves no card: it
\* sets jackPhase to opponent_choose and jackMyIndex to a slot of the
\* holder's hand and leaves the ability with its holder, the turn and every
\* pile as they are; jack_respond changes nothing when it comes from the
\* holder, when the pending ability is not a jack or before opponent_choose;
\* an accepted jack_respond exchanges the slot recorded with a slot of the
\* sender's hand, clears the ability and runs the end-of-turn check (the
\* game is finished or the turn passes on with no drawn card).
C33_JackProtocol ==
  [][\A s \in Seated :
       /\ AbilityStep(s, "J") =>
            /\ \A p \in DOMAIN game.players : game'.players[p] = game.players[p]
            /\ game'.deck = game.deck
            /\ game'.discardPile = game.discardPile
            /\ game'.drawnCard = game.drawnCard
            /\ game'.turnIndex = game.turnIndex
            /\ game'.status = game.status
            /\ \E i \in DOMAIN game.players[s].hand :
                 game'.activeAbility = [type |-> "J", player |-> s,
                                        jackPhase |-> "opponent_choose",
                                        jackMyIndex |-> i - 1]
       /\ (/\ \/ game.activeAbility.type # "J"
              \/ game.activeAbility.jackPhase # "opponent_choose"
              \/ game.activeAbility.player = s
           /\ JackRespond(s)) => UNCHANGED vars
       /\ (/\ game.activeAbility.type = "J"
           /\ game.activeAbility.jackPhase = "opponent_choose"
           /\ game.activeAbility.player # s
           /\ moves' # moves
           /\ crashed' = crashed
           /\ JackRespond(s)) =>
            LET jp == game.activeAbility.player
                ji == game.activeAbility.jackMyIndex + 1
            IN /\ \E k \in DOMAIN game.players[s].hand :
                    /\ game'.players[jp].hand =
                         [game.players[jp].hand EXCEPT ![ji] = game.players[s].hand[k]]
                    /\ game'.players[s].hand =
                         [game.players[s].hand EXCEPT ![k] = game.players[jp].hand[ji]]
               /\ game'.activeAbility = NoAbility
               /\ \/ game'.status = "finished"
                  \/ /\ game'.turnIndex = (game.turnIndex + 1) % Len(game.playerOrder)
                     /\ game'.drawnCard = Null]_vars

\* s2 has discarded the Jc on the 7c and chosen a slot, s1 has answered: a
\* card dealt to s1 lies in the hand of s2 and no ability is pending
C33_Witness ==
  /\ game.discardPile = <<33, 37>>
  /\ game.activeAbility = NoAbility
  /\ <<"card_animation", "room">> \in emitted
  /\ CardsOf(game.players["s2"].hand) \cap {13, 2, 6, 3} # {}
  /\ ActiveId(game) = "s1"


\* C34: when a matching execute_stack of a playing game takes the matched
\* card from the opponent's hand and a card leaves the caller's hand, that
\* card lands in the slot the matched card left and, unless the step ends the
\* game, it is face-down, neither knownToPlayer nor knownToOpponent is set on
\* it, and the snapshot of neither player shows it.
C34_OffensiveGive ==
  [][\A s \in Seated :
       LET o == getOpponentId(game, s)
       IN (/\ game.status = "playing"
           /\ o # NoId
           /\ game'.players[s].hand # game.players[s].hand
           /\ Len(game'.discardPile) = Len(game.discardPile) + 1
           /\ game'.discardPile[Len(game'.discardPile)] \in CardsOf(game.players[o].hand)
           /\ StackMatchStep(s)) =>
            \E i \in DOMAIN game.players[s].hand : \E j \in DOMAIN game.players[o].hand :
              LET g == game.players[s].hand[i]
              IN /\ g # Null
                 /\ game.players[o].hand[j] = game'.discardPile[Len(game'.discardPile)]
                 /\ game'.players[s].hand = [game.players[s].hand EXCEPT ![i] = Null]
                 /\ game'.players[o].hand = [game.players[o].hand EXCEPT ![j] = g]
                 /\ game'.status # "finished" =>
                      /\ g \notin game'.faceUp \cup game'.knownToPlayer \cup game'.knownToOpponent
                      /\ \A v \in Seated : ~ShownTo(game', v, g)]_vars


\* C35: an accepted draw_discard on a slot that holds a card c puts, in the
\* one step, the former top of the discard pile in that slot, face-down
\* (unless the step ends the game) and not knownToPlayer, and c face-up on
\* top of the pile, whose size does not change; no card is drawn; when the
\* rank of c is K, J, 8 or 6 the ability of c is set for the player and the
\* turn stays, otherwise no ability is set and the end-of-turn check has run
\* (the game is finished or the turn has passed on).
C35_DrawDiscardSwap ==
  [][\A s \in Seated :
       (/\ ActiveId(game) = s
        /\ game.drawnCard = Null
        /\ game.activeAbility = NoAbility
        /\ game.discardPile # <<>>
        /\ moves' # moves
        /\ crashed' = crashed
        /\ game'.players[s].hand # game.players[s].hand
        /\ DrawDiscard(s)) =>
         LET n == Len(game.discardPile)
             top == game.discardPile[n]
         IN \E i \in DOMAIN game.players[s].hand :
              LET c == game.players[s].hand[i]
              IN /\ game'.players[s].hand = [game.players[s].hand EXCEPT ![i] = top]
                 /\ c # Null =>
                      /\ game'.discardPile = [game.discardPile EXCEPT ![n] = c]
                      /\ c \in game'.faceUp
                      /\ top \notin game'.knownToPlayer
                      /\ game'.status # "finished" => top \notin game'.faceUp
                      /\ game'.drawnCard = Null
                      /\ game'.deck = game.deck
                      /\ IF valueOf(c) \in AbilityTypes
                         THEN /\ game'.activeAbility = [type |-> valueOf(c), player |-> s,
                                                        jackPhase |-> "none", jackMyIndex |-> NoIdx]
                              /\ game'.turnIndex = game.turnIndex
                              /\ game'.status = game.status
                         ELSE /\ game'.activeAbility = NoAbility
                              /\ \/ game'.status = "finished"
                                 \/ game'.turnIndex = (game.turnIndex + 1) % Len(game.playerOrder)]_vars

\* s1 has discarded the 7c and s2 has taken it for the 6d of slot 2: the 7c
\* lies face-down in the slot, the 6d is the pile, s2 holds the ability 6
C35_Witness ==
  /\ game.discardPile = <<19>>
  /\ game.players["s2"].hand = <<20, 4, 33, 5>>
  /\ 33 \notin game.faceUp
  /\ 19 \in game.faceUp
  /\ game.activeAbility.type = "6"
  /\ game.activeAbility.player = "s2"
  /\ ActiveId(game) = "s2"
  /\ game.drawnCard = Null


\* C36: play_again changes nothing unless the game is finished; on a finished
\* game it leaves the game in phase1 with turnIndex 0, an empty discard
\* pile, no drawn card, no ability, no endTriggeredBy, an inactive stack
\* window, score 0 and isFinalTurn false for every player, four face-down
\* cards in every hand and 46 cards in the deck, the 54 cards of a deck in
\* all, and the same players in the same seats.
C36_ReplayReset ==
  [][\A s \in Seated :
       /\ (game.status # "finished" /\ PlayAgain(s)) => UNCHANGED vars
       /\ (game.status = "finished" /\ deals' # deals /\ PlayAgain(s)) =>
            /\ game'.status = "phase1"
            /\ game'.turnIndex = 0
            /\ game'.discardPile = <<>>
            /\ game'.drawnCard = Null
            /\ game'.activeAbility = NoAbility
            /\ game'.endTriggeredBy = NoId
            /\ game'.stackWindow = NoStack
            /\ game'.playerOrder = game.playerOrder
            /\ DOMAIN game'.players = DOMAIN game.players
            /\ \A p \in DOMAIN game.players :
                 /\ game'.players[p].score = 0
                 /\ game'.players[p].isFinalTurn = FALSE
                 /\ game'.players[p].number = game.players[p].number
                 /\ Len(game'.players[p].hand) = 4
                 /\ Cardinality(CardsOf(game'.players[p].hand)) = 4
                 /\ CardsOf(game'.players[p].hand) \cap game'.faceUp = {}
            /\ Len(game'.deck) = 46
            /\ SeqToSet(game'.deck) \cup UNION {CardsOf(game'.players[p].hand) : p \in DOMAIN game.players}
                 = 1..54]_vars

\* the second deal: a finished game was reset by play_again
C36_Witness ==
  /\ deals = 2
  /\ game.status = "phase1"
  /\ Len(game.deck) = 46
  /\ game.discardPile = <<>>
  /\ \A p \in DOMAIN game.players : game.players[p].score = 0
  /\ <<"game_state_update", "s1">> \in emitted


\* C37: whenever execute_stack of a playing game judges the chosen card a
\* match, the discard pile is not empty and the rank of the matched card,
\* which the step pushes on the pile, is the rank of the card that was on top
\* of the pile when the request came in.
C37_StackTargetCurrent ==
  [][\A s \in Seated :
       (game.status = "playing" /\ StackMatchStep(s)) =>
         /\ game.discardPile # <<>>
         /\ valueOf(game'.discardPile[Len(game'.discardPile)])
              = valueOf(game.discardPile[Len(game.discardPile)])]_vars


\* C38: in every state every card of the deck is face-down and every card of
\* the discard pile is face-up; while the game is not finished every card of
\* a hand and the drawn card are face-down, so that the hand of a player is
\* "all null or face-up", the end condition of checkEndGameAndAdvance, only
\* when it holds no card.
C38_FaceByContainer ==
  /\ SeqToSet(game.deck) \cap game.faceUp = {}
  /\ SeqToSet(game.discardPile) \subseteq game.faceUp
  /\ game.status # "finished" =>
       /\ game.drawnCard \notin game.faceUp
       /\ \A p \in DOMAIN game.players :
            /\ CardsOf(game.players[p].hand) \cap game.faceUp = {}
            /\ (\A i \in DOMAIN game.players[p].hand :
                  game.players[p].hand[i] = Null \/ game.players[p].hand[i] \in game.faceUp)
                 => CardsOf(game.players[p].hand) = {}

\* a playing game with a card in every container: s2 has taken the 7c
\* from the pile for the 7d, s1 has drawn the Jc
C38_Witness ==
  /\ game.status = "playing"
  /\ game.discardPile = <<20>>
  /\ game.players["s2"].hand = <<33, 4, 19, 5>>
  /\ game.drawnCard = 37
  /\ game.deck # <<>>


\* C39: in every state of a finished game every card in a hand is face-up
\* and the score of every player is the sum of the values of the cards that
\* are in the player's hand.
C39_FinalScoresTrue ==
  game.status = "finished" =>
    \A p \in DOMAIN game.players :
      /\ CardsOf(game.players[p].hand) \subseteq game.faceUp
      /\ game.players[p].score = WorthOver(game.players[p].hand, DOMAIN game.players[p].hand)


\* C40: whenever the stack window is active its caller is a seated player,
\* and whenever an ability is pending its player is a seated player.
C40_ModeOwnersSeated ==
  /\ game.stackWindow.active => game.stackWindow.caller \in DOMAIN game.players
  /\ game.activeAbility.type # "none" => game.activeAbility.player \in DOMAIN game.players

====
